---- MODULE Spec2Model ----
(***************************************************************************)
(* The credential database of gateway-mt's auth service (auth/db.go): the  *)
(* Database facade (Put, Get, Delete, Invalidate, Ping) over an abstract    *)
(* key/value store, with the AES-GCM envelope modelled symbolically.        *)
(*                                                                          *)
(* Go strings are modelled as sequences of tokens, byte arrays as functions *)
(* over 1..n.  SHA-256 and AES-GCM are ideal: the digest is a constructor   *)
(* over its input, a ciphertext records the key, the nonce and the          *)
(* plaintext it was made from, and opens only under that key and nonce and  *)
(* only while no byte of it was changed.                                    *)
(***************************************************************************)
EXTENDS Integers, Sequences, FiniteSets, TLC

VARIABLES
    allowedSatelliteAddresses, \* Database.allowedSatelliteAddresses
    storeKind,   \* which conforming backend: what its get does for an invalidated record
    kv,          \* the store's records: a function from the key hashes present
    invalid,     \* the store's invalidation state: key hash -> reason
    ret,         \* the last facade call and what it returned
    deposit,     \* history: key -> (grant, public, secret) of the accepted Put still live
    writer,      \* history: key hash -> encryption key whose Put wrote the record
    written,     \* history: key hash -> the Put that wrote the record
    acceptedKeys,  \* history: the keys for which the store has accepted a Put
    usedNonces,    \* history: the (key, nonce) pairs Puts have encrypted under
    encrypting,    \* the (key, nonce) pairs the last call encrypted under
    tampered,    \* number of changes made directly in the backend
    codecKey,    \* codec: the EncryptionKey at hand (the receiver k)
    codecText,   \* codec: the string at hand (encoded)
    codecRet,    \* codec: the last codec call and what it returned
    calls,       \* the Put calls in flight: process -> its local variables
    run,         \* one Put call statement by statement: its position and locals
    cmd          \* the gateway's run command: runCfg, its locals, the environment

dbVars == <<allowedSatelliteAddresses, storeKind, kv, invalid, ret,
            deposit, writer, written, acceptedKeys, usedNonces, encrypting, tampered>>

codecVars == <<codecKey, codecText, codecRet>>

\* What the calls on a Database leave alone.
outsideDb == <<codecVars, calls, run, cmd>>

vars == <<dbVars, outsideDb>>

----------------------------------------------------------------------------
(* Bounds of the model *)

NumKeys == 2
NumSecrets == 2
MaxTamper == 1
NumProcs == 2
MaxAddrLen == 3

(* Program constants *)

EncKeyLen == 16
StorjKeyLen == 32
NonceSecretKey == 0
NonceAccessGrant == 1

----------------------------------------------------------------------------
(* Values *)

\* EncryptionKey [16]byte; the keys of the model differ in their last byte.
KeyOf(b) == [i \in 1..EncKeyLen |-> IF i = EncKeyLen THEN b ELSE 7]

KEYS == {KeyOf(b) : b \in 1..NumKeys}

ZeroKey == [i \in 1..EncKeyLen |-> 0]

\* SecretKey: 0 is the zero value of the array, 1..NumSecrets what rand.Read draws.
ZeroSecret == 0

SECRETS == 1..NumSecrets

\* rand.Read(secretKey[:]): the bytes drawn, or an error.
RandOutcomes ==
    {[err |-> FALSE, val |-> s] : s \in SECRETS} \cup {[err |-> TRUE, val |-> ZeroSecret]}

\* Node URL strings, as token sequences.
NODE_IDS == {<<"id1">>, <<"id2">>}

Sat1 == <<"sat1.example:7777">>
Sat2 == <<"sat2.example:7777">>
Sat3 == <<"sat3.example:7777">>

WithID(id, addr) == id \o <<"@">> \o addr

\* Serialized access grants: what the string deserializes to, if it does.
Grant(sat, head) == [fmt |-> "access", sat |-> sat, head |-> head]

EmptyString == [fmt |-> "empty", sat |-> <<>>, head |-> ""]

GarbledGrant == [fmt |-> "garbled", sat |-> <<>>, head |-> ""]

GRANTS ==
    { Grant(WithID(<<"id1">>, Sat1), "head1"),
      Grant(WithID(<<"id2">>, Sat1), "head2"),
      Grant(Sat2, "head3"),
      Grant(WithID(<<"no-id">>, Sat1), "head4"),
      GarbledGrant }

REASONS == {"abuse"}

\* The configured list of allowed satellites (node URLs).
AllowedSatellites == <<WithID(<<"id1">>, Sat1), Sat3>>

----------------------------------------------------------------------------
(* Codec and crypto envelope *)

\* Mutant: only the first byte of the key is hashed.
HashOfFirstByte(k) == <<"sha256", <<k[1]>>>>

\* sha256.Sum256(k[:]): an ideal digest.
Hash(k) == <<"sha256", k>>

\* Mutant: the copy into the zeroed storj.Key is left out.
ToStorjKeyNoCopy(k) == [i \in 1..StorjKeyLen |-> 0]

\* copy(storjKey[:], k[:]) into a zeroed storj.Key.
ToStorjKey(k) == [i \in 1..StorjKeyLen |-> IF i <= EncKeyLen THEN k[i] ELSE 0]

\* Mutant: every plaintext is sealed with the all-zero nonce.
EncryptWithZeroNonce(pt, key, nonce) ==
    [err |-> FALSE, ct |-> [key |-> key, nonce |-> NonceSecretKey, pt |-> pt, flip |-> 0]]

\* encryption.Encrypt(pt, storj.EncAESGCM, key, nonce).
Encrypt(pt, key, nonce) ==
    [err |-> FALSE, ct |-> [key |-> key, nonce |-> nonce, pt |-> pt, flip |-> 0]]

\* encryption.Decrypt(ct, storj.EncAESGCM, key, nonce): authenticated.
Decrypt(ct, key, nonce) ==
    IF ct.key = key /\ ct.nonce = nonce /\ ct.flip = 0
    THEN [err |-> FALSE, pt |-> {ct.pt}]
    ELSE [err |-> TRUE, pt |-> {}]

----------------------------------------------------------------------------
(* Version-tagged base32 codec.  A Go string is a sequence of one-byte      *)
(* characters, a byte a number in 0..255.                                    *)

encKeySizeEncoded == 28
encKeyVersionByte == 77
secKeyVersionByte == 78

\* The RFC 4648 alphabet of base32.StdEncoding, and its lower-case form.
Alphabet ==
    <<"A", "B", "C", "D", "E", "F", "G", "H", "I", "J", "K", "L", "M",
      "N", "O", "P", "Q", "R", "S", "T", "U", "V", "W", "X", "Y", "Z",
      "2", "3", "4", "5", "6", "7">>

LowerAlphabet ==
    <<"a", "b", "c", "d", "e", "f", "g", "h", "i", "j", "k", "l", "m",
      "n", "o", "p", "q", "r", "s", "t", "u", "v", "w", "x", "y", "z",
      "2", "3", "4", "5", "6", "7">>

IndexIn(alphabet, c) == CHOOSE i \in 1..Len(alphabet) : alphabet[i] = c

Occurs(alphabet, c) == \E i \in 1..Len(alphabet) : alphabet[i] = c

\* strings.ToUpper and strings.ToLower on the characters of the model.
ToUpper(s) ==
    [i \in 1..Len(s) |-> IF Occurs(LowerAlphabet, s[i])
                         THEN Alphabet[IndexIn(LowerAlphabet, s[i])] ELSE s[i]]

ToLower(s) ==
    [i \in 1..Len(s) |-> IF Occurs(Alphabet, s[i])
                         THEN LowerAlphabet[IndexIn(Alphabet, s[i])] ELSE s[i]]

\* Bit j (from 0, most significant first) of a byte string; 0 past its end.
ByteBit(src, j) ==
    IF j \div 8 < Len(src) THEN (src[(j \div 8) + 1] \div 2^(7 - (j % 8))) % 2 ELSE 0

\* base32Encoding.EncodeToString(src), without padding: 5 bits a character,
\* the last character filled up with zero bits.
EncodeToString(src) ==
    [i \in 1..((8 * Len(src) + 4) \div 5) |->
        Alphabet[1 + 16 * ByteBit(src, 5 * (i - 1))
                   + 8 * ByteBit(src, 5 * (i - 1) + 1)
                   + 4 * ByteBit(src, 5 * (i - 1) + 2)
                   + 2 * ByteBit(src, 5 * (i - 1) + 3)
                   + ByteBit(src, 5 * (i - 1) + 4)]]

\* The decoder's decodeMap: the 5-bit value of a character, 255 for a
\* character outside the alphabet.
DecodeMap(c) == IF Occurs(Alphabet, c) THEN IndexIn(Alphabet, c) - 1 ELSE 255

\* Bit j of the 5-bit values of a character string.
CharBit(dbuf, j) == (dbuf[(j \div 5) + 1] \div 2^(4 - (j % 5))) % 2

\* Bytes the decoder writes for a last quantum of dlen characters: its
\* switch has the cases 8, 7, 5, 4 and 2 and no other.
QuantumBytes(dlen) ==
    CASE dlen = 7 -> 4
      [] dlen = 5 -> 3
      [] dlen = 4 -> 2
      [] dlen = 2 -> 1
      [] OTHER -> 0

IsNewline(c) == c \in {"\r", "\n"}

StripNewlines(s) == SelectSeq(s, LAMBDA c : ~IsNewline(c))

\* base32Encoding.DecodeString(s), without padding: newline characters are
\* dropped, a character outside the alphabet is a CorruptInputError, trailing
\* bits that fill no byte are dropped unread.
DecodeString(s) ==
    LET src == StripNewlines(s)
        dbuf == [i \in 1..Len(src) |-> DecodeMap(src[i])]
        n == 5 * (Len(src) \div 8) + QuantumBytes(Len(src) % 8)
    IN IF \E i \in 1..Len(src) : dbuf[i] = 255
       THEN [err |-> TRUE, data |-> <<>>]
       ELSE [err |-> FALSE,
             data |-> [m \in 1..n |->
                          128 * CharBit(dbuf, 8 * (m - 1))
                        + 64 * CharBit(dbuf, 8 * (m - 1) + 1)
                        + 32 * CharBit(dbuf, 8 * (m - 1) + 2)
                        + 16 * CharBit(dbuf, 8 * (m - 1) + 3)
                        + 8 * CharBit(dbuf, 8 * (m - 1) + 4)
                        + 4 * CharBit(dbuf, 8 * (m - 1) + 5)
                        + 2 * CharBit(dbuf, 8 * (m - 1) + 6)
                        + CharBit(dbuf, 8 * (m - 1) + 7)]]

\* ToBase32(versionByte, k)
ToBase32(versionByte, k) == ToLower(EncodeToString(<<versionByte>> \o k))

\* EncryptionKey.ToBase32
EncryptionKeyToBase32(k) == ToBase32(encKeyVersionByte, k)

\* Mutant: copy(k[:], data), the version byte not skipped.
CopyWithTag(k, data) ==
    [i \in 1..Len(k) |-> IF i <= Len(data) THEN data[i] ELSE k[i]]

\* copy(k[:], data[1:]): as many bytes as data[1:] has, at most len(k).
CopyTail(k, data) ==
    [i \in 1..Len(k) |-> IF i <= Len(data) - 1 THEN data[i + 1] ELSE k[i]]

\* Mutant: the version byte is not compared.
FromBase32NoVersionCheck(k, encoded) ==
    IF Len(encoded) # encKeySizeEncoded
    THEN [err |-> "MalformedKey", at |-> "length", k |-> k] ELSE
    LET dec == DecodeString(ToUpper(encoded)) IN
    IF dec.err THEN [err |-> "MalformedKey", at |-> "base32", k |-> k]
    ELSE [err |-> "", at |-> "", k |-> CopyTail(k, dec.data)]

\* EncryptionKey.FromBase32: the error, and the receiver afterwards.  "panic"
\* is the run-time panic of data[0] on an empty slice.
FromBase32(k, encoded) ==
    IF Len(encoded) # encKeySizeEncoded
    THEN [err |-> "MalformedKey", at |-> "length", k |-> k] ELSE
    LET dec == DecodeString(ToUpper(encoded)) IN
    IF dec.err THEN [err |-> "MalformedKey", at |-> "base32", k |-> k] ELSE
    IF dec.data = <<>> THEN [err |-> "panic", at |-> "version", k |-> k] ELSE
    IF dec.data[1] # encKeyVersionByte
    THEN [err |-> "MalformedKey", at |-> "version", k |-> k]
    ELSE [err |-> "", at |-> "", k |-> CopyTail(k, dec.data)]

----------------------------------------------------------------------------
(* Grant parser and node URLs *)

\* access2.ParseAccess(accessGrant)
ParseAccess(accessGrant) ==
    IF accessGrant.fmt = "access"
    THEN [err |-> FALSE, SatelliteAddress |-> accessGrant.sat, Head |-> accessGrant.head]
    ELSE [err |-> TRUE, SatelliteAddress |-> <<>>, Head |-> ""]

\* storj.ParseNodeURL(s): [nodeID@]host:port
ParseNodeURL(s) ==
    LET ats == {i \in 1..Len(s) : s[i] = "@"} IN
    IF ats = {}
    THEN [err |-> FALSE, ID |-> <<>>, Address |-> s]
    ELSE LET i == CHOOSE j \in ats : \A m \in ats : j <= m
             id == SubSeq(s, 1, i - 1)
         IN IF id \in NODE_IDS
            THEN [err |-> FALSE, ID |-> id, Address |-> SubSeq(s, i + 1, Len(s))]
            ELSE [err |-> TRUE, ID |-> <<>>, Address |-> <<>>]

----------------------------------------------------------------------------
(* Allow-list *)

RECURSIVE RemoveNodeIDsFrom(_, _)
RemoveNodeIDsFrom(ss, p) ==
    IF ss = <<>> THEN [err |-> FALSE, p |-> p]
    ELSE LET url == ParseNodeURL(Head(ss)) IN
         IF url.err THEN [err |-> TRUE, p |-> <<>>]
         ELSE RemoveNodeIDsFrom(Tail(ss), Append(p, url.Address))

\* Mutant: the entry itself is appended, not url.Address.
RemoveNodeIDsKeepsURL(ss) == [err |-> RemoveNodeIDsFrom(ss, <<>>).err, p |-> ss]

RemoveNodeIDs(ss) == RemoveNodeIDsFrom(ss, <<>>)

\* NewDatabase: the map built from the list it is given.
NewDatabase(allowed) == {allowed[i] : i \in 1..Len(allowed)}

\* Mutant: the allow-list lookup is skipped.
IsAllowedAny(url) == TRUE

\* db.allowedSatelliteAddresses[url.Address]
IsAllowed(url) == url.Address \in allowedSatelliteAddresses

----------------------------------------------------------------------------
(* Record store *)

KvPut(keyHash, record) ==
    IF keyHash \in DOMAIN kv
    THEN [err |-> "AlreadyExists", kv |-> kv]
    ELSE [err |-> "", kv |-> kv @@ (keyHash :> record)]

KvGet(keyHash) ==
    IF keyHash \notin DOMAIN kv THEN [err |-> "", rec |-> {}]
    ELSE IF keyHash \in DOMAIN invalid /\ storeKind = "sentinel"
         THEN [err |-> "Invalidated", rec |-> {}]
         ELSE [err |-> "", rec |-> {kv[keyHash]}]

\* put when the caller's context is cancelled while the store commits: the
\* record is in the store and the call reports the cancellation.
KvPutCancelled(keyHash, record) ==
    IF keyHash \in DOMAIN kv
    THEN [err |-> "AlreadyExists", kv |-> kv]
    ELSE [err |-> "Canceled", kv |-> kv @@ (keyHash :> record)]

Without(f, x) == [y \in DOMAIN f \ {x} |-> f[y]]

KvDelete(keyHash) ==
    [err |-> "", kv |-> Without(kv, keyHash), invalid |-> Without(invalid, keyHash)]

KvInvalidate(keyHash, reason) ==
    [err |-> "",
     invalid |-> IF keyHash \in DOMAIN kv /\ keyHash \notin DOMAIN invalid
                 THEN invalid @@ (keyHash :> reason)
                 ELSE invalid]

KvPing == [err |-> ""]

----------------------------------------------------------------------------
(* Database facade *)

\* Mutant: the Public field of the record is left at its zero value.
NewRecordPublicUnset(satelliteAddr, head, encryptedSecretKey, encryptedAccessGrant, public) ==
    [SatelliteAddress |-> satelliteAddr,
     MacaroonHead |-> head,
     EncryptedSecretKey |-> encryptedSecretKey,
     EncryptedAccessGrant |-> encryptedAccessGrant,
     Public |-> FALSE]

NewRecord(satelliteAddr, head, encryptedSecretKey, encryptedAccessGrant, public) ==
    [SatelliteAddress |-> satelliteAddr,
     MacaroonHead |-> head,
     EncryptedSecretKey |-> encryptedSecretKey,
     EncryptedAccessGrant |-> encryptedAccessGrant,
     Public |-> public]

PutFailed(err, secretKey) ==
    [err |-> err, secretKey |-> secretKey, kv |-> kv]

\* Mutant: after an error of the store the record is taken out again.
PutReturnRollsBack(secretKey, put) ==
    [err |-> put.err, secretKey |-> secretKey,
     kv |-> IF put.err = "" THEN put.kv ELSE kv]

\* Mutant: the store's error is dropped and the outer (nil) err returned.
PutReturnDropsStoreError(secretKey, put) ==
    [err |-> "", secretKey |-> secretKey, kv |-> put.kv]

\* if err := db.kv.Put(...); err != nil { return secretKey, errs.Wrap(err) }; return secretKey, err
PutReturn(secretKey, put) ==
    [err |-> put.err, secretKey |-> secretKey, kv |-> put.kv]

DatabasePut(key, accessGrant, public, rnd) ==
    LET access == ParseAccess(accessGrant) IN
    IF access.err THEN PutFailed("MalformedGrant", ZeroSecret) ELSE
    LET satelliteAddr == access.SatelliteAddress
        url == ParseNodeURL(satelliteAddr)
    IN
    IF url.err THEN PutFailed("BadNodeURL", ZeroSecret) ELSE
    IF ~IsAllowed(url) THEN PutFailed("DisallowedSatellite", ZeroSecret) ELSE
    IF rnd.err THEN PutFailed("Internal", rnd.val) ELSE
    LET secretKey == rnd.val
        storjKey == ToStorjKey(key)
        encryptedSecretKey == Encrypt(secretKey, storjKey, NonceSecretKey)
        encryptedAccessGrant == Encrypt(accessGrant, storjKey, NonceAccessGrant)
    IN
    IF encryptedSecretKey.err \/ encryptedAccessGrant.err
    THEN PutFailed("Internal", secretKey) ELSE
    LET record == NewRecord(satelliteAddr, access.Head, encryptedSecretKey.ct,
                            encryptedAccessGrant.ct, public)
    IN PutReturn(secretKey, KvPut(Hash(key), record))

\* Mutant: the secret key is encrypted before rand.Read has filled it.
PutPrepareEncryptsUnfilled(key, accessGrant, public, rnd) ==
    LET access == ParseAccess(accessGrant)
        url == ParseNodeURL(access.SatelliteAddress)
        storjKey == ToStorjKey(key)
    IN
    IF access.err THEN [err |-> "MalformedGrant", secretKey |-> ZeroSecret, record |-> {}] ELSE
    IF url.err THEN [err |-> "BadNodeURL", secretKey |-> ZeroSecret, record |-> {}] ELSE
    IF ~IsAllowed(url)
    THEN [err |-> "DisallowedSatellite", secretKey |-> ZeroSecret, record |-> {}] ELSE
    IF rnd.err THEN [err |-> "Internal", secretKey |-> rnd.val, record |-> {}] ELSE
    [err |-> "", secretKey |-> rnd.val,
     record |-> {NewRecord(access.SatelliteAddress, access.Head,
                           Encrypt(ZeroSecret, storjKey, NonceSecretKey).ct,
                           Encrypt(accessGrant, storjKey, NonceAccessGrant).ct, public)}]

\* Put up to its call of db.kv.Put: the error it returns early with, or the
\* secret key it has minted and the record it is about to store.
PutPrepare(key, accessGrant, public, rnd) ==
    LET access == ParseAccess(accessGrant) IN
    IF access.err THEN [err |-> "MalformedGrant", secretKey |-> ZeroSecret, record |-> {}] ELSE
    LET satelliteAddr == access.SatelliteAddress
        url == ParseNodeURL(satelliteAddr)
    IN
    IF url.err THEN [err |-> "BadNodeURL", secretKey |-> ZeroSecret, record |-> {}] ELSE
    IF ~IsAllowed(url)
    THEN [err |-> "DisallowedSatellite", secretKey |-> ZeroSecret, record |-> {}] ELSE
    IF rnd.err THEN [err |-> "Internal", secretKey |-> rnd.val, record |-> {}] ELSE
    LET secretKey == rnd.val
        storjKey == ToStorjKey(key)
        encryptedSecretKey == Encrypt(secretKey, storjKey, NonceSecretKey)
        encryptedAccessGrant == Encrypt(accessGrant, storjKey, NonceAccessGrant)
    IN
    IF encryptedSecretKey.err \/ encryptedAccessGrant.err
    THEN [err |-> "Internal", secretKey |-> secretKey, record |-> {}]
    ELSE [err |-> "", secretKey |-> secretKey,
          record |-> {NewRecord(satelliteAddr, access.Head, encryptedSecretKey.ct,
                                encryptedAccessGrant.ct, public)}]

\* return "", false, secretKey, err
GetFailed(err, secretKey) ==
    [err |-> err, accessGrant |-> EmptyString, public |-> FALSE, secretKey |-> secretKey]

\* Mutant: a failed Decrypt is reported with NotFound.New, like a missing record.
GetCorruptAsNotFound(secretKey) == GetFailed("NotFound", secretKey)

\* return "", false, secretKey, errs.Wrap(err) after a failed Decrypt
GetCorrupt(secretKey) == GetFailed("Corrupt", secretKey)

\* The (key, nonce) pairs Put hands to encryption.Encrypt: none when it
\* returns before the first Encrypt, one when the first Encrypt fails.
PutEncrypts(key, accessGrant, public, rnd) ==
    LET access == ParseAccess(accessGrant)
        url == ParseNodeURL(access.SatelliteAddress)
        storjKey == ToStorjKey(key)
    IN
    IF access.err \/ url.err THEN {}
    ELSE IF ~IsAllowed(url) \/ rnd.err THEN {}
    ELSE IF Encrypt(rnd.val, storjKey, NonceSecretKey).err
         THEN {[key |-> storjKey, nonce |-> NonceSecretKey]}
         ELSE {[key |-> storjKey, nonce |-> NonceSecretKey],
               [key |-> storjKey, nonce |-> NonceAccessGrant]}

DatabaseGet(key) ==
    LET got == KvGet(Hash(key)) IN
    IF got.err # "" THEN GetFailed(got.err, ZeroSecret) ELSE
    IF got.rec = {} THEN GetFailed("NotFound", ZeroSecret) ELSE
    LET record == CHOOSE r \in got.rec : TRUE
        storjKey == ToStorjKey(key)
        sk == Decrypt(record.EncryptedSecretKey, storjKey, NonceSecretKey)
    IN
    IF sk.err THEN GetCorrupt(ZeroSecret) ELSE
    LET secretKey == CHOOSE s \in sk.pt : TRUE
        ag == Decrypt(record.EncryptedAccessGrant, storjKey, NonceAccessGrant)
    IN
    IF ag.err THEN GetCorrupt(secretKey) ELSE
    [err |-> "", accessGrant |-> CHOOSE g \in ag.pt : TRUE,
     public |-> record.Public, secretKey |-> secretKey]

\* Mutant: Delete forwards to the store's Invalidate.
DatabaseDeleteInvalidates(key) ==
    [err |-> "", kv |-> kv, invalid |-> KvInvalidate(Hash(key), "deleted").invalid]

DatabaseDelete(key) == KvDelete(Hash(key))

DatabaseInvalidate(key, reason) == KvInvalidate(Hash(key), reason)

DatabasePing == KvPing

----------------------------------------------------------------------------
(* The state machine *)

\* What a call of Get returned.
Returned(op, key, r) ==
    [op |-> op, key |-> key, err |-> r.err, accessGrant |-> r.accessGrant,
     public |-> r.public, secretKey |-> r.secretKey]

\* What a call of Put, Delete, Invalidate or Ping returned: an error, and from
\* Put a secret key; the fields of Get's result are left at their zero values.
ReturnedErr(op, key, err, secretKey) ==
    [op |-> op, key |-> key, err |-> err, accessGrant |-> EmptyString,
     public |-> FALSE, secretKey |-> secretKey]

\* No codec call is under way.
CodecIdle == [op |-> "none", err |-> "", at |-> "", recv |-> ZeroKey]

InitCodecIdle ==
    /\ codecKey = ZeroKey
    /\ codecText = <<>>
    /\ codecRet = CodecIdle

InitDatabase ==
    /\ LET p == RemoveNodeIDs(AllowedSatellites) IN
          /\ ~p.err
          /\ allowedSatelliteAddresses = NewDatabase(p.p)
    /\ storeKind \in {"sentinel", "marker"}
    /\ kv = <<>>
    /\ invalid = <<>>
    /\ ret = ReturnedErr("New", ZeroKey, "", ZeroSecret)
    /\ deposit = <<>>
    /\ writer = <<>>
    /\ written = <<>>
    /\ acceptedKeys = {}
    /\ usedNonces = {}
    /\ encrypting = {}
    /\ tampered = 0

PROCS == 1..NumProcs

\* A process that has not called Put.
IdleCall ==
    [pc |-> "idle", key |-> ZeroKey, accessGrant |-> EmptyString, public |-> FALSE,
     secretKey |-> ZeroSecret, record |-> {}, err |-> "", raced |-> FALSE]

InitCallsIdle == calls = [p \in PROCS |-> IdleCall]

\* No Put is being stepped through.
IdleRun ==
    [pc |-> "idle", key |-> ZeroKey, accessGrant |-> EmptyString, public |-> FALSE,
     satelliteAddr |-> <<>>, head |-> "", secretKey |-> ZeroSecret,
     encryptedSecretKey |-> {}, encryptedAccessGrant |-> {}, err |-> "", trace |-> <<>>]

InitRunIdle == run = IdleRun

\* The zero value of GatewayFlags, as far as cmdRun reads it.
ZeroFlags == [Address |-> <<>>, AuthToken |-> "", AuthURL |-> "", DomainName |-> ""]

\* The run command has not been called.
IdleCmd ==
    [pc |-> "idle", runCfg |-> ZeroFlags, address |-> <<>>, err |-> <<>>,
     env |-> <<>>, trace |-> <<>>]

InitCmdIdle == cmd = IdleCmd

Init == InitDatabase /\ InitCodecIdle /\ InitCallsIdle /\ InitRunIdle /\ InitCmdIdle

Put(key, accessGrant, public, rnd) ==
    LET r == DatabasePut(key, accessGrant, public, rnd) IN
    /\ kv' = r.kv
    /\ ret' = ReturnedErr("Put", key, r.err, r.secretKey)
    /\ deposit' = IF r.err = ""
                  THEN Without(deposit, key) @@
                       (key :> [accessGrant |-> accessGrant, public |-> public,
                                secretKey |-> r.secretKey])
                  ELSE deposit
    /\ writer' = IF r.err = "" THEN Without(writer, Hash(key)) @@ (Hash(key) :> key)
                 ELSE writer
    /\ written' = IF r.err = ""
                  THEN Without(written, Hash(key)) @@
                       (Hash(key) :> [key |-> key, accessGrant |-> accessGrant,
                                      secretKey |-> r.secretKey])
                  ELSE written
    /\ acceptedKeys' = IF r.err = "" THEN acceptedKeys \cup {key} ELSE acceptedKeys
    /\ encrypting' = PutEncrypts(key, accessGrant, public, rnd)
    /\ usedNonces' = usedNonces \cup encrypting'
    /\ UNCHANGED <<allowedSatelliteAddresses, storeKind, invalid, tampered>>
    /\ UNCHANGED outsideDb

Get(key) ==
    /\ ret' = Returned("Get", key, DatabaseGet(key))
    /\ encrypting' = {}
    /\ UNCHANGED <<allowedSatelliteAddresses, storeKind, kv, invalid,
                   deposit, writer, written, acceptedKeys, usedNonces, tampered>>
    /\ UNCHANGED outsideDb

Delete(key) ==
    LET r == DatabaseDelete(key) IN
    /\ kv' = r.kv
    /\ invalid' = r.invalid
    /\ ret' = ReturnedErr("Delete", key, r.err, ZeroSecret)
    /\ deposit' = Without(deposit, key)
    /\ writer' = Without(writer, Hash(key))
    /\ written' = Without(written, Hash(key))
    /\ encrypting' = {}
    /\ UNCHANGED <<allowedSatelliteAddresses, storeKind, acceptedKeys, usedNonces, tampered>>
    /\ UNCHANGED outsideDb

Invalidate(key, reason) ==
    LET r == DatabaseInvalidate(key, reason) IN
    /\ invalid' = r.invalid
    /\ ret' = ReturnedErr("Invalidate", key, r.err, ZeroSecret)
    /\ deposit' = Without(deposit, key)
    /\ encrypting' = {}
    /\ UNCHANGED <<allowedSatelliteAddresses, storeKind, kv, writer, written,
                   acceptedKeys, usedNonces, tampered>>
    /\ UNCHANGED outsideDb

Ping ==
    /\ ret' = ReturnedErr("Ping", ZeroKey, DatabasePing.err, ZeroSecret)
    /\ encrypting' = {}
    /\ UNCHANGED <<allowedSatelliteAddresses, storeKind, kv, invalid,
                   deposit, writer, written, acceptedKeys, usedNonces, tampered>>
    /\ UNCHANGED outsideDb

Next ==
    \/ \E key \in KEYS, accessGrant \in GRANTS, public \in BOOLEAN, rnd \in RandOutcomes :
          Put(key, accessGrant, public, rnd)
    \/ \E key \in KEYS : Get(key)
    \/ \E key \in KEYS : Delete(key)
    \/ \E key \in KEYS, reason \in REASONS : Invalidate(key, reason)
    \/ Ping

Spec == Init /\ [][Next]_vars

----------------------------------------------------------------------------
(* The backend changed behind the facade: one byte of a ciphertext changed, *)
(* or a record copied under another key hash.                               *)

HASHES == {Hash(k) : k \in KEYS}

TamperSecretKey(keyHash) ==
    /\ tampered < MaxTamper
    /\ keyHash \in DOMAIN kv
    /\ kv[keyHash].EncryptedSecretKey.flip = 0
    /\ kv' = [kv EXCEPT ![keyHash].EncryptedSecretKey.flip = 1]
    /\ tampered' = tampered + 1
    /\ UNCHANGED <<allowedSatelliteAddresses, storeKind, invalid, ret,
                   deposit, writer, written, acceptedKeys, usedNonces, encrypting>>
    /\ UNCHANGED outsideDb

TamperAccessGrant(keyHash) ==
    /\ tampered < MaxTamper
    /\ keyHash \in DOMAIN kv
    /\ kv[keyHash].EncryptedAccessGrant.flip = 0
    /\ kv' = [kv EXCEPT ![keyHash].EncryptedAccessGrant.flip = 1]
    /\ tampered' = tampered + 1
    /\ UNCHANGED <<allowedSatelliteAddresses, storeKind, invalid, ret,
                   deposit, writer, written, acceptedKeys, usedNonces, encrypting>>
    /\ UNCHANGED outsideDb

CopyRecord(from, to) ==
    /\ tampered < MaxTamper
    /\ from \in DOMAIN kv
    /\ to # from
    /\ kv' = Without(kv, to) @@ (to :> kv[from])
    /\ writer' = Without(writer, to) @@ (to :> writer[from])
    /\ written' = Without(written, to) @@ (to :> written[from])
    /\ tampered' = tampered + 1
    /\ UNCHANGED <<allowedSatelliteAddresses, storeKind, invalid, ret,
                   deposit, acceptedKeys, usedNonces, encrypting>>
    /\ UNCHANGED outsideDb

Tamper ==
    \/ \E keyHash \in HASHES : TamperSecretKey(keyHash)
    \/ \E keyHash \in HASHES : TamperAccessGrant(keyHash)
    \/ \E from \in HASHES, to \in HASHES : CopyRecord(from, to)

\* The grants that parse and name a satellite on the allow-list.
StorableGrants ==
    {g \in GRANTS : /\ ~ParseAccess(g).err
                    /\ ~ParseNodeURL(ParseAccess(g).SatelliteAddress).err
                    /\ IsAllowed(ParseNodeURL(ParseAccess(g).SatelliteAddress))}

\* One draw of a working RNG.
FirstDraw == {r \in RandOutcomes : ~r.err /\ r.val = 1}

NextTamper ==
    \/ \E key \in KEYS, accessGrant \in StorableGrants, public \in BOOLEAN,
          rnd \in FirstDraw : Put(key, accessGrant, public, rnd)
    \/ \E key \in KEYS : Get(key)
    \/ \E key \in KEYS : Delete(key)
    \/ \E key \in KEYS, reason \in REASONS : Invalidate(key, reason)
    \/ Tamper

SpecTamper == Init /\ [][NextTamper]_vars

----------------------------------------------------------------------------
(* The codec on its own: a key and a string are given, and FromBase32 and   *)
(* ToBase32 are called on them.                                              *)

\* A key whose bytes all differ.
RampKey == [i \in 1..EncKeyLen |-> (37 * i) % 256]

\* A receiver none of whose bytes is a byte of the keys above.
FilledKey == [i \in 1..EncKeyLen |-> 255]

CodecKeys == KEYS \cup {ZeroKey, RampKey}

Receivers == {ZeroKey, FilledKey}

\* s with its i-th character replaced by c.
Mutate(s, i, c) == [s EXCEPT ![i] = c]

\* Replacement characters: base32 letters and digits in both cases, digits
\* and signs outside the alphabet, a newline.
MutationChars == {"a", "A", "b", "q", "z", "7", "0", "=", "\n"}

\* The strings FromBase32 is called with.
INPUTS ==
    LET encodings == {ToBase32(v, k) : v \in {encKeyVersionByte, secKeyVersionByte},
                                       k \in CodecKeys}
        tagged == {EncryptionKeyToBase32(k) : k \in KEYS}
    IN encodings
       \cup {ToUpper(x) : x \in encodings}
       \cup {Mutate(x, i, c) : x \in tagged, i \in 1..encKeySizeEncoded, c \in MutationChars}
       \cup {SubSeq(x, 1, encKeySizeEncoded - 1) : x \in tagged}
       \cup {x \o <<"a">> : x \in tagged}
       \cup {<<>>, [i \in 1..encKeySizeEncoded |-> "\n"]}

InitCodec ==
    /\ InitDatabase
    /\ codecKey \in CodecKeys
    /\ codecText \in INPUTS
    /\ codecRet = CodecIdle
    /\ InitCallsIdle
    /\ InitRunIdle
    /\ InitCmdIdle

\* err := k.FromBase32(encoded), on a receiver that held recv.
CallFromBase32(recv) ==
    LET r == FromBase32(recv, codecText) IN
    /\ codecKey' = r.k
    /\ codecRet' = [op |-> "FromBase32", err |-> r.err, at |-> r.at, recv |-> recv]
    /\ UNCHANGED <<codecText, dbVars, calls, run, cmd>>

\* encoded := k.ToBase32()
CallToBase32 ==
    /\ codecText' = EncryptionKeyToBase32(codecKey)
    /\ codecRet' = [op |-> "ToBase32", err |-> "", at |-> "", recv |-> codecKey]
    /\ UNCHANGED <<codecKey, dbVars, calls, run, cmd>>

NextCodec ==
    \/ \E recv \in Receivers : CallFromBase32(recv)
    \/ CallToBase32

SpecCodec == InitCodec /\ [][NextCodec]_vars

----------------------------------------------------------------------------
(* Put calls running concurrently on one Database.  Up to its call of       *)
(* db.kv.Put a call works on its own local variables and reads the          *)
(* allow-list; the store's put is one atomic step.                          *)

\* The grants the concurrent callers pass.
RacingGrants ==
    { Grant(WithID(<<"id1">>, Sat1), "head1"),
      Grant(WithID(<<"id2">>, Sat1), "head2"),
      Grant(Sat2, "head3") }

\* db.go:126-165: process p calls Put and runs up to the store call.
PutBegin(p, key, accessGrant, public, rnd) ==
    LET r == PutPrepare(key, accessGrant, public, rnd) IN
    /\ calls[p].pc = "idle"
    /\ calls' = [calls EXCEPT ![p] =
                    [pc |-> IF r.err = "" THEN "store" ELSE "done",
                     key |-> key, accessGrant |-> accessGrant, public |-> public,
                     secretKey |-> r.secretKey, record |-> r.record, err |-> r.err,
                     raced |-> FALSE]]
    /\ encrypting' = PutEncrypts(key, accessGrant, public, rnd)
    /\ usedNonces' = usedNonces \cup encrypting'
    /\ UNCHANGED <<allowedSatelliteAddresses, storeKind, kv, invalid, ret, deposit,
                   writer, written, acceptedKeys, tampered, codecVars, run, cmd>>

\* db.go:167-171: db.kv.Put and the return of process p.
PutStore(p) ==
    /\ calls[p].pc = "store"
    /\ LET key == calls[p].key
           record == CHOOSE r \in calls[p].record : TRUE
           r == PutReturn(calls[p].secretKey, KvPut(Hash(key), record))
       IN /\ kv' = r.kv
          /\ calls' = [calls EXCEPT ![p].pc = "done", ![p].err = r.err,
                                    ![p].raced = \E q \in PROCS \ {p} :
                                                    /\ calls[q].pc = "store"
                                                    /\ calls[q].key = key]
          /\ deposit' = IF r.err = ""
                        THEN Without(deposit, key) @@
                             (key :> [accessGrant |-> calls[p].accessGrant,
                                      public |-> calls[p].public,
                                      secretKey |-> r.secretKey])
                        ELSE deposit
          /\ writer' = IF r.err = "" THEN Without(writer, Hash(key)) @@ (Hash(key) :> key)
                       ELSE writer
          /\ written' = IF r.err = ""
                        THEN Without(written, Hash(key)) @@
                             (Hash(key) :> [key |-> key,
                                            accessGrant |-> calls[p].accessGrant,
                                            secretKey |-> r.secretKey])
                        ELSE written
          /\ acceptedKeys' = IF r.err = "" THEN acceptedKeys \cup {key} ELSE acceptedKeys
    /\ UNCHANGED <<allowedSatelliteAddresses, storeKind, invalid, ret, usedNonces,
                   encrypting, tampered, codecVars, run, cmd>>

NextConcurrent ==
    \/ \E p \in PROCS, key \in KEYS, accessGrant \in RacingGrants, public \in BOOLEAN,
          rnd \in RandOutcomes : PutBegin(p, key, accessGrant, public, rnd)
    \/ \E p \in PROCS : PutStore(p)
    \/ \E key \in KEYS : Get(key)

SpecConcurrent == Init /\ [][NextConcurrent]_vars

----------------------------------------------------------------------------
(* One Put call, statement by statement (db.go:122-172).  run.trace lists    *)
(* the calls Put has made so far.                                            *)

\* What encryption.Encrypt does in a call of Put: both calls succeed, or the
\* first or the second returns an error.
EncryptOutcomes == {"ok", "secret key", "access grant"}

\* What db.kv.Put does: the store's put, or the put cut short by cancellation.
StoreOutcomes == {"put", "cancelled"}

\* Put returns: the position after a return statement.
RunReturns(err, secretKey, called) ==
    /\ run' = [run EXCEPT !.pc = "done", !.err = err, !.secretKey = secretKey,
                          !.trace = run.trace \o called]
    /\ ret' = ReturnedErr("Put", run.key, err, secretKey)

\* Put goes on to position pc.
RunGoesOn(pc, called) ==
    /\ run' = [run EXCEPT !.pc = pc, !.trace = run.trace \o called]
    /\ UNCHANGED ret

\* db.go:122: Put(ctx, key, accessGrant, public) is called.
StepCall(key, accessGrant, public) ==
    /\ run.pc \in {"idle", "done"}
    /\ run' = [IdleRun EXCEPT !.pc = "parse", !.key = key,
                              !.accessGrant = accessGrant, !.public = public]
    /\ encrypting' = {}
    /\ UNCHANGED <<allowedSatelliteAddresses, storeKind, kv, invalid, ret, deposit, writer,
                   written, acceptedKeys, usedNonces, tampered, codecVars, calls, cmd>>

\* Mutant: the error of ParseAccess is not looked at.
StepParseIgnoresError ==
    LET access == ParseAccess(run.accessGrant) IN
    /\ run.pc = "parse"
    /\ run' = [run EXCEPT !.pc = "allow",
                          !.satelliteAddr = access.SatelliteAddress,
                          !.head = access.Head,
                          !.trace = run.trace \o <<"ParseAccess">>]
    /\ UNCHANGED <<allowedSatelliteAddresses, storeKind, kv, invalid, ret, deposit, writer,
                   written, acceptedKeys, usedNonces, encrypting, tampered, codecVars, calls, cmd>>

\* db.go:126-129: access2.ParseAccess.
StepParse ==
    LET access == ParseAccess(run.accessGrant) IN
    /\ run.pc = "parse"
    /\ IF access.err
       THEN RunReturns("MalformedGrant", run.secretKey, <<"ParseAccess">>)
       ELSE /\ run' = [run EXCEPT !.pc = "allow",
                                  !.satelliteAddr = access.SatelliteAddress,
                                  !.head = access.Head,
                                  !.trace = run.trace \o <<"ParseAccess">>]
            /\ UNCHANGED ret
    /\ UNCHANGED <<allowedSatelliteAddresses, storeKind, kv, invalid, deposit, writer,
                   written, acceptedKeys, usedNonces, encrypting, tampered, codecVars, calls, cmd>>

\* db.go:133-140: storj.ParseNodeURL and the allow-list lookup.
StepAllow ==
    LET url == ParseNodeURL(run.satelliteAddr) IN
    /\ run.pc = "allow"
    /\ IF url.err
       THEN RunReturns("BadNodeURL", run.secretKey, <<"ParseNodeURL">>)
       ELSE IF ~IsAllowed(url)
            THEN RunReturns("DisallowedSatellite", run.secretKey,
                            <<"ParseNodeURL", "allowedSatelliteAddresses">>)
            ELSE RunGoesOn("mint", <<"ParseNodeURL", "allowedSatelliteAddresses">>)
    /\ UNCHANGED <<allowedSatelliteAddresses, storeKind, kv, invalid, deposit, writer,
                   written, acceptedKeys, usedNonces, encrypting, tampered, codecVars, calls, cmd>>

\* db.go:142-144: rand.Read(secretKey[:]).
StepMint(rnd) ==
    /\ run.pc = "mint"
    /\ IF rnd.err
       THEN RunReturns("Internal", rnd.val, <<"rand.Read">>)
       ELSE /\ run' = [run EXCEPT !.pc = "encrypt", !.secretKey = rnd.val,
                                  !.trace = run.trace \o <<"rand.Read">>]
            /\ UNCHANGED ret
    /\ UNCHANGED <<allowedSatelliteAddresses, storeKind, kv, invalid, deposit, writer,
                   written, acceptedKeys, usedNonces, encrypting, tampered, codecVars, calls, cmd>>

\* db.go:146-156: the two calls of encryption.Encrypt.
StepEncrypt(outcome) ==
    LET storjKey == ToStorjKey(run.key)
        encryptedSecretKey == Encrypt(run.secretKey, storjKey, NonceSecretKey)
        encryptedAccessGrant == Encrypt(run.accessGrant, storjKey, NonceAccessGrant)
    IN
    /\ run.pc = "encrypt"
    /\ IF outcome = "secret key" \/ encryptedSecretKey.err
       THEN /\ RunReturns("Internal", run.secretKey, <<"Encrypt">>)
            /\ encrypting' = {[key |-> storjKey, nonce |-> NonceSecretKey]}
       ELSE /\ encrypting' = {[key |-> storjKey, nonce |-> NonceSecretKey],
                              [key |-> storjKey, nonce |-> NonceAccessGrant]}
            /\ IF outcome = "access grant" \/ encryptedAccessGrant.err
               THEN RunReturns("Internal", run.secretKey, <<"Encrypt", "Encrypt">>)
               ELSE /\ run' = [run EXCEPT
                                  !.pc = "store",
                                  !.encryptedSecretKey = {encryptedSecretKey.ct},
                                  !.encryptedAccessGrant = {encryptedAccessGrant.ct},
                                  !.trace = run.trace \o <<"Encrypt", "Encrypt">>]
                    /\ UNCHANGED ret
    /\ usedNonces' = usedNonces \cup encrypting'
    /\ UNCHANGED <<allowedSatelliteAddresses, storeKind, kv, invalid, deposit, writer,
                   written, acceptedKeys, tampered, codecVars, calls, cmd>>

\* db.go:159-171: the record, db.kv.Put and the return.
StepStore(outcome) ==
    LET key == run.key
        record == NewRecord(run.satelliteAddr, run.head,
                            CHOOSE c \in run.encryptedSecretKey : TRUE,
                            CHOOSE c \in run.encryptedAccessGrant : TRUE, run.public)
        put == IF outcome = "cancelled" THEN KvPutCancelled(Hash(key), record)
               ELSE KvPut(Hash(key), record)
        r == PutReturn(run.secretKey, put)
        stored == Hash(key) \notin DOMAIN kv /\ Hash(key) \in DOMAIN r.kv
    IN
    /\ run.pc = "store"
    /\ kv' = r.kv
    /\ RunReturns(r.err, r.secretKey, <<"kv.Put">>)
    /\ deposit' = IF stored
                  THEN Without(deposit, key) @@
                       (key :> [accessGrant |-> run.accessGrant, public |-> run.public,
                                secretKey |-> r.secretKey])
                  ELSE deposit
    /\ writer' = IF stored THEN Without(writer, Hash(key)) @@ (Hash(key) :> key) ELSE writer
    /\ written' = IF stored
                  THEN Without(written, Hash(key)) @@
                       (Hash(key) :> [key |-> key, accessGrant |-> run.accessGrant,
                                      secretKey |-> r.secretKey])
                  ELSE written
    /\ acceptedKeys' = IF stored THEN acceptedKeys \cup {key} ELSE acceptedKeys
    /\ UNCHANGED <<allowedSatelliteAddresses, storeKind, invalid, usedNonces, encrypting,
                   tampered, codecVars, calls, cmd>>

\* The caller calls Get with the key of the Put that has returned.
GetAfterPut ==
    /\ run.pc = "done"
    /\ Get(run.key)

\* The grants the stepped calls pass: one for each way Put can go.
SteppedGrants ==
    { Grant(WithID(<<"id1">>, Sat1), "head1"),
      Grant(Sat2, "head3"),
      Grant(WithID(<<"no-id">>, Sat1), "head4"),
      GarbledGrant }

NextSteps ==
    \/ \E key \in KEYS, accessGrant \in SteppedGrants, public \in BOOLEAN :
          StepCall(key, accessGrant, public)
    \/ StepParse
    \/ StepAllow
    \/ \E rnd \in RandOutcomes : StepMint(rnd)
    \/ \E outcome \in EncryptOutcomes : StepEncrypt(outcome)
    \/ \E outcome \in StoreOutcomes : StepStore(outcome)
    \/ GetAfterPut

SpecSteps == Init /\ [][NextSteps]_vars

----------------------------------------------------------------------------
(* The gateway's run command (cmdRun and GatewayFlags.Run).  Addresses are   *)
(* sequences of characters; an error value is the sequence of the errors its *)
(* message lists, <<>> being nil.                                            *)

AddrChars == {"h", "7", ":", "[", "]"}

SeqsUpTo(S, n) == UNION {[1..m -> S] : m \in 0..n}

\* runCfg.Server.Address: every short string, and longer ones with brackets.
ADDRESSES ==
    SeqsUpTo(AddrChars, MaxAddrLen)
       \cup { <<"h", "h", ":", "7", "7">>,
              <<"[", "h", "]", ":", "7">>,
              <<"[", "h", ":", "h", "]", ":", "7">>,
              <<"[", "h", "]", "7", ":", "7">>,
              <<"[", "h", "]", ":", ":", "7">>,
              <<"[", "h", "]", ":", "7", "]">> }

AuthTokens == {"", "super-secret"}
AuthURLs == {"", "http://localhost:8000"}

\* A domain name with a NUL byte, which os.Setenv rejects.
NulDomain == "local\\x00host"

DomainNames == {"", "localhost", NulDomain}

\* bytealg.IndexByteString and last of package net, counting from 1; 0 is "none".
IndexByte(s, c) ==
    IF \E i \in 1..Len(s) : s[i] = c
    THEN CHOOSE i \in 1..Len(s) : s[i] = c /\ \A j \in 1..(i - 1) : s[j] # c
    ELSE 0

LastIndex(s, c) ==
    IF \E i \in 1..Len(s) : s[i] = c
    THEN CHOOSE i \in 1..Len(s) : s[i] = c /\ \A j \in (i + 1)..Len(s) : s[j] # c
    ELSE 0

AddrError(why) == [err |-> <<[msg |-> why, name |-> "address"]>>, host |-> <<>>, port |-> <<>>]

\* net.SplitHostPort
SplitHostPort(hostport) ==
    LET n == Len(hostport)
        i == LastIndex(hostport, ":")
    IN
    IF i = 0 THEN AddrError("missing port in address") ELSE
    LET bracket == hostport[1] = "["
        end == IndexByte(hostport, "]")
    IN
    IF bracket /\ end = 0 THEN AddrError("missing ']' in address") ELSE
    IF bracket /\ end = n THEN AddrError("missing port in address") ELSE
    IF bracket /\ end + 1 # i
    THEN IF hostport[end + 1] = ":"
         THEN AddrError("too many colons in address")
         ELSE AddrError("missing port in address")
    ELSE
    LET host == IF bracket THEN SubSeq(hostport, 2, end - 1) ELSE SubSeq(hostport, 1, i - 1)
        j == IF bracket THEN 2 ELSE 1
        k == IF bracket THEN end + 1 ELSE 1
    IN
    IF ~bracket /\ IndexByte(host, ":") # 0 THEN AddrError("too many colons in address") ELSE
    IF IndexByte(SubSeq(hostport, j, n), "[") # 0
    THEN AddrError("unexpected '[' in address") ELSE
    IF IndexByte(SubSeq(hostport, k, n), "]") # 0
    THEN AddrError("unexpected ']' in address") ELSE
    [err |-> <<>>, host |-> host, port |-> SubSeq(hostport, i + 1, n)]

\* net.JoinHostPort
JoinHostPort(host, port) ==
    IF IndexByte(host, ":") # 0
    THEN <<"[">> \o host \o <<"]", ":">> \o port
    ELSE host \o <<":">> \o port

Loopback == <<"127.0.0.1">>

\* errs.Combine: the errors that are not nil, all of them in the message.
Combine(err, e) == err \o e

\* Error.New("required parameter --%s not set", configName)
NotSet(configName) == [msg |-> "required parameter not set", name |-> configName]

\* Mutant: validate assigns its error to err instead of combining.
validateOverwrites(err, value, configName) ==
    IF value = "" THEN <<NotSet(configName)>> ELSE err

\* The closure validate of cmdRun; err is the captured variable.
validate(err, value, configName) ==
    IF value = "" THEN Combine(err, <<NotSet(configName)>>) ELSE err

\* os.Setenv: EINVAL for an empty name, a name with "=" or NUL, a value with NUL.
Setenv(env, envName, value) ==
    IF envName = "" \/ value = NulDomain
    THEN [err |-> <<[msg |-> "setenv: invalid argument", name |-> envName]>>, env |-> env]
    ELSE [err |-> <<>>, env |-> (envName :> value) @@ env]

\* The closure set of cmdRun, on the captured err and the process environment.
set(st, value, envName) ==
    LET r == Setenv(st.env, envName, value) IN
    [err |-> Combine(st.err, r.err), env |-> r.env]

\* What GatewayFlags.Run does: the call that fails, or the server is served.
RunOutcomes == {"NewGateway", "NewGatewayLayer", "net.Listen", "LoadTLSConfigFromDir", "served"}

CmdUnchanged == UNCHANGED <<dbVars, codecVars, calls, run>>

\* process.Bind has filled runCfg and cobra calls cmdRun.
cmdRunCall(flags) ==
    /\ cmd.pc = "idle"
    /\ cmd' = [cmd EXCEPT !.pc = "split", !.runCfg = flags]
    /\ CmdUnchanged

\* part_000:148-155
cmdRunSplit ==
    LET address == cmd.runCfg.Address
        r == SplitHostPort(address)
    IN
    /\ cmd.pc = "split"
    /\ cmd' = IF r.err # <<>>
              THEN [cmd EXCEPT !.pc = "done", !.err = r.err]
              ELSE [cmd EXCEPT !.pc = "validate",
                               !.address = IF r.host = <<>>
                                           THEN JoinHostPort(Loopback, r.port)
                                           ELSE address]
    /\ CmdUnchanged

\* part_000:157-174: process.Ctx, InitMetrics (a warning at most), validate x 3.
cmdRunValidate ==
    LET e1 == validate(cmd.err, cmd.runCfg.AuthToken, "auth-token")
        e2 == validate(e1, cmd.runCfg.AuthURL, "auth-url")
        e3 == validate(e2, cmd.runCfg.DomainName, "domain-name")
    IN
    /\ cmd.pc = "validate"
    /\ cmd' = [cmd EXCEPT !.pc = "set", !.err = e3]
    /\ CmdUnchanged

\* part_000:175-179: set x 5.
cmdRunSet ==
    LET s0 == [err |-> cmd.err, env |-> cmd.env]
        s1 == set(s0, cmd.runCfg.DomainName, "MINIO_DOMAIN")
        s2 == set(s1, "enable", "STORJ_AUTH_ENABLED")
        s3 == set(s2, "off", "MINIO_BROWSER")
        s4 == set(s3, "dummy-key-to-satisfy-minio", "MINIO_ACCESS_KEY")
        s5 == set(s4, "dummy-key-to-satisfy-minio", "MINIO_SECRET_KEY")
    IN
    /\ cmd.pc = "set"
    /\ cmd' = [cmd EXCEPT !.pc = "check", !.err = s5.err, !.env = s5.env]
    /\ CmdUnchanged

\* part_000:180-189: if err != nil { return err }; return runCfg.Run(ctx, address)
cmdRunCheck ==
    /\ cmd.pc = "check"
    /\ cmd' = IF cmd.err # <<>>
              THEN [cmd EXCEPT !.pc = "done"]
              ELSE [cmd EXCEPT !.pc = "run", !.trace = Append(cmd.trace, "Run")]
    /\ CmdUnchanged

\* part_000:193-237: GatewayFlags.Run.
Run(outcome) ==
    LET failed == [msg |-> "failed", name |-> outcome]
        listens == outcome \in {"LoadTLSConfigFromDir", "served"}
    IN
    /\ cmd.pc = "run"
    /\ cmd' = [cmd EXCEPT
                 !.pc = "done",
                 !.err = IF outcome = "served" THEN <<>> ELSE <<failed>>,
                 !.trace = IF listens \/ outcome = "net.Listen"
                           THEN Append(cmd.trace, "net.Listen")
                           ELSE cmd.trace]
    /\ CmdUnchanged

FLAGS ==
    [Address : ADDRESSES, AuthToken : AuthTokens, AuthURL : AuthURLs, DomainName : DomainNames]

NextCmd ==
    \/ \E flags \in FLAGS : cmdRunCall(flags)
    \/ cmdRunSplit
    \/ cmdRunValidate
    \/ cmdRunSet
    \/ cmdRunCheck
    \/ \E outcome \in RunOutcomes : Run(outcome)

SpecCmd == Init /\ [][NextCmd]_vars

----------------------------------------------------------------------------
(* Claims *)

Live(k) ==
    [err |-> "", accessGrant |-> deposit[k].accessGrant,
     public |-> deposit[k].public, secretKey |-> deposit[k].secretKey]

\* C1: once Put(k, g, p) has succeeded and returned s, Get(k) returns exactly
\* (g, p, s) for as long as neither Delete(k) nor Invalidate(k, _) is called,
\* whatever is done with other keys.
C1_PutThenGet ==
    /\ \A k \in DOMAIN deposit : DatabaseGet(k) = Live(k)
    /\ (ret.op = "Get" /\ ret.key \in DOMAIN deposit)
          => ret = Returned("Get", ret.key, Live(ret.key))

C1_Witness ==
    /\ ret.op = "Get"
    /\ ret.key \in DOMAIN deposit
    /\ ret.err = ""
    /\ \E k \in acceptedKeys : k # ret.key /\ k \notin DOMAIN deposit

\* C2 (as stated): with a record present for k, a second Put(k, g2, p2) returns
\* AlreadyExists and leaves the stored record as it was.
C2_SecondPutAlreadyExists ==
    [][\A key \in KEYS :
          (ret'.op = "Put" /\ ret'.key = key /\ Hash(key) \in DOMAIN kv)
             => /\ ret'.err = "AlreadyExists"
                /\ kv' = kv
                /\ DatabaseGet(key)' = DatabaseGet(key)]_vars

\* C2 (amended): with a record present for k, a second Put(k, g2, p2) never
\* succeeds and leaves the store, and what Get(k) returns, as they were; its
\* error is AlreadyExists exactly when g2 parses, names an allowed satellite
\* and the RNG read succeeds, and the error of the earlier failing step otherwise.
C2_SecondPutRefused ==
    /\ [](\A key \in KEYS, g \in GRANTS, p \in BOOLEAN, rnd \in RandOutcomes :
             Hash(key) \in DOMAIN kv
                => LET r == DatabasePut(key, g, p, rnd) IN
                   /\ r.err # ""
                   /\ r.err = "AlreadyExists" <=> (g \in StorableGrants /\ ~rnd.err)
                   /\ r.kv = kv)
    /\ [][\A key \in KEYS :
             (ret'.op = "Put" /\ ret'.key = key /\ Hash(key) \in DOMAIN kv)
                => /\ ret'.err # ""
                   /\ kv' = kv
                   /\ invalid' = invalid
                   /\ DatabaseGet(key)' = DatabaseGet(key)]_vars

C2_Witness ==
    /\ ret.op = "Put"
    /\ ret.err = "AlreadyExists"
    /\ ret.key \in DOMAIN deposit
    /\ deposit[ret.key].secretKey # ret.secretKey
    /\ DatabaseGet(ret.key) = Live(ret.key)

\* C3: for each key at most one Put is ever accepted, also when Delete or
\* Invalidate was called in between.
C3_AcceptedOnce ==
    [][(ret'.op = "Put" /\ ret'.err = "") => ret'.key \notin acceptedKeys]_vars

\* C4: across all Put calls, failing ones included, each (derived key, nonce)
\* pair is used for at most one encryption.
C4_NonceUsedOnce ==
    [][\A u \in encrypting' : u \notin usedNonces]_vars

\* C5: after Invalidate(k, reason) on an existing record, Get(k) returns
\* NotFound, for every behaviour the store contract allows.
C5_InvalidatedIsNotFound ==
    \A k \in KEYS :
       Hash(k) \in DOMAIN invalid
          => /\ DatabaseGet(k).err = "NotFound"
             /\ (ret.op = "Get" /\ ret.key = k) => ret.err = "NotFound"

\* C6: after Delete(k), Get(k) returns NotFound until a later Put(k, ...) is
\* accepted; Delete(k) succeeds whether or not a record exists, and a second
\* Delete(k) leaves the store as the first left it.
C6_DeleteThenNotFound ==
    [][/\ \A key \in KEYS :
             Delete(key)
                => /\ ret'.err = ""
                   /\ DatabaseGet(key)'.err = "NotFound"
                   /\ DatabaseDelete(key)'.kv = kv'
                   /\ DatabaseDelete(key)'.invalid = invalid'
       /\ \A key \in KEYS :
             (DatabaseGet(key).err = "NotFound" /\ DatabaseGet(key)'.err # "NotFound")
                => (ret'.op = "Put" /\ ret'.key = key /\ ret'.err = "")]_vars

C6_Witness ==
    /\ ret.op = "Delete"
    /\ ret.err = ""
    /\ ret.key \in acceptedKeys
    /\ DatabaseGet(ret.key).err = "NotFound"

\* C7: every record in the store names a satellite whose host:port is on the
\* allow-list; a Put whose grant names another satellite fails with
\* DisallowedSatellite and writes nothing.
C7_OnlyAllowedSatellites ==
    /\ \A h \in DOMAIN kv :
          ParseNodeURL(kv[h].SatelliteAddress).Address \in allowedSatelliteAddresses
    /\ \A key \in KEYS, g \in GRANTS, p \in BOOLEAN, rnd \in RandOutcomes :
          (/\ ~ParseAccess(g).err
           /\ ~ParseNodeURL(g.sat).err
           /\ ParseNodeURL(g.sat).Address \notin allowedSatelliteAddresses)
             => /\ DatabasePut(key, g, p, rnd).err = "DisallowedSatellite"
                /\ DatabasePut(key, g, p, rnd).kv = kv

C7_Witness ==
    /\ ret.op = "Put"
    /\ ret.err = "DisallowedSatellite"
    /\ Hash(ret.key) \notin DOMAIN kv
    /\ DOMAIN kv # {}

\* C8: the allow-list holds only the host:port of each configured node URL, so
\* a grant naming any node ID at a configured host:port is accepted.
C8_NodeIDIgnored ==
    /\ allowedSatelliteAddresses =
          {ParseNodeURL(AllowedSatellites[i]).Address : i \in 1..Len(AllowedSatellites)}
    /\ \A a \in allowedSatelliteAddresses : "@" \notin {a[i] : i \in 1..Len(a)}
    /\ \A i \in 1..Len(AllowedSatellites), g \in GRANTS :
          (/\ ~ParseAccess(g).err
           /\ ~ParseNodeURL(g.sat).err
           /\ ParseNodeURL(g.sat).Address = ParseNodeURL(AllowedSatellites[i]).Address)
             => \A key \in KEYS, p \in BOOLEAN, rnd \in RandOutcomes :
                   (Hash(key) \notin DOMAIN kv /\ ~rnd.err)
                      => DatabasePut(key, g, p, rnd).err = ""

C8_Witness ==
    /\ ret.op = "Put"
    /\ ret.err = ""
    /\ Hash(ret.key) \in DOMAIN kv
    /\ kv[Hash(ret.key)].SatelliteAddress = WithID(<<"id2">>, Sat1)
    /\ WithID(<<"id1">>, Sat1) \in {AllowedSatellites[i] : i \in 1..Len(AllowedSatellites)}

\* C9: Get(k') returns only what a Put(k', ...) deposited: with no record
\* under SHA256(k') it returns NotFound, and a record written under another
\* key yields Corrupt and no plaintext.
C9_KeyIsolation ==
    \A k \in KEYS :
       LET r == DatabaseGet(k)
           got == KvGet(Hash(k))
       IN /\ (k \notin acceptedKeys /\ tampered = 0) => r.err = "NotFound"
          /\ Hash(k) \notin DOMAIN kv => r.err = "NotFound"
          /\ r.err = ""
                => /\ writer[Hash(k)] = k
                   /\ r.secretKey = kv[Hash(k)].EncryptedSecretKey.pt
                   /\ r.accessGrant = kv[Hash(k)].EncryptedAccessGrant.pt
          /\ (got.rec # {} /\ writer[Hash(k)] # k)
                => r = GetFailed("Corrupt", ZeroSecret)

C9_Witness ==
    /\ ret.op = "Get"
    /\ Hash(ret.key) \in DOMAIN kv
    /\ writer[Hash(ret.key)] # ret.key
    /\ ret = Returned("Get", ret.key, GetFailed("Corrupt", ZeroSecret))
    /\ DatabaseGet(writer[Hash(ret.key)]).err = ""

BadCiphertext(k) ==
    /\ KvGet(Hash(k)).rec # {}
    /\ \/ kv[Hash(k)].EncryptedSecretKey.flip # 0
       \/ kv[Hash(k)].EncryptedAccessGrant.flip # 0
       \/ writer[Hash(k)] # k

\* C10: when a ciphertext of the record stored for k fails authenticated
\* decryption, Get(k) returns Corrupt, not NotFound, returns no grant, and
\* leaves the store as it was.
C10_TamperedIsCorrupt ==
    /\ [](\A k \in KEYS :
             BadCiphertext(k)
                => /\ DatabaseGet(k).err = "Corrupt"
                   /\ DatabaseGet(k).accessGrant = EmptyString
                   /\ DatabaseGet(k).public = FALSE)
    /\ [][\A k \in KEYS :
             (Get(k) /\ BadCiphertext(k))
                => /\ ret'.err = "Corrupt"
                   /\ ret'.accessGrant = EmptyString
                   /\ kv' = kv
                   /\ invalid' = invalid]_vars

C10_Witness ==
    /\ ret.op = "Get"
    /\ ret.err = "Corrupt"
    /\ Hash(ret.key) \in DOMAIN kv
    /\ writer[Hash(ret.key)] = ret.key
    /\ kv[Hash(ret.key)].EncryptedSecretKey.flip = 0
    /\ kv[Hash(ret.key)].EncryptedAccessGrant.flip = 1
    /\ ret.secretKey # ZeroSecret

\* The 5-bit value a character stands for in either case, 255 for none.
Base32Value(c) ==
    IF Occurs(Alphabet, c) THEN IndexIn(Alphabet, c) - 1
    ELSE IF Occurs(LowerAlphabet, c) THEN IndexIn(LowerAlphabet, c) - 1
    ELSE 255

Base32Chars(x) == \A i \in 1..Len(x) : Base32Value(x[i]) # 255

\* x in lower case, the four unused low bits of its last character cleared.
CanonicalText(x) ==
    [i \in 1..Len(x) |->
        IF i = Len(x)
        THEN LowerAlphabet[1 + 16 * (Base32Value(x[i]) \div 16)]
        ELSE LowerAlphabet[1 + Base32Value(x[i])]]

\* C11 (as stated): FromBase32(ToBase32(b)) succeeds and yields b, and for an
\* encoding x that FromBase32 accepts, ToBase32 of the decoded key is x.
C11_RoundTrip ==
    [][/\ (codecRet.op = "ToBase32" /\ codecRet'.op = "FromBase32")
             => (codecRet'.err = "" /\ codecKey' = codecKey)
       /\ (codecRet.op = "FromBase32" /\ codecRet.err = "" /\ codecRet'.op = "ToBase32")
             => codecText' = codecText]_vars

\* C11 (amended): FromBase32(ToBase32(b)) succeeds and yields b; for a string
\* x of 28 base32 characters that FromBase32 accepts, ToBase32 of the decoded
\* key is x in lower case with the unused low bits of its last character
\* cleared, which is x itself exactly when x is such a string already.
C11_RoundTripCanonical ==
    [][/\ (codecRet.op = "ToBase32" /\ codecRet'.op = "FromBase32")
             => (codecRet'.err = "" /\ codecKey' = codecKey)
       /\ (/\ codecRet.op = "FromBase32" /\ codecRet.err = ""
           /\ codecRet'.op = "ToBase32"
           /\ Base32Chars(codecText))
             => /\ codecText' = CanonicalText(codecText)
                /\ codecText' = codecText
                      <=> /\ codecText = ToLower(codecText)
                          /\ codecText[Len(codecText)] \in {"a", "q"}]_vars

C11_Witness ==
    /\ codecRet.op = "FromBase32"
    /\ codecRet.err = ""
    /\ codecRet.recv = FilledKey
    /\ codecKey = RampKey
    /\ codecText = EncryptionKeyToBase32(RampKey)

\* The mutation replaces the decoded version byte: it is the first five bits
\* and the top three bits of the second character.
ChangesTag(x, i, c) ==
    \/ i = 1 /\ Base32Value(c) # Base32Value(x[1])
    \/ i = 2 /\ Base32Value(c) \div 4 # Base32Value(x[2]) \div 4

\* The mutation replaces a bit of the 16 key bytes.
ChangesKey(x, i, c) ==
    \/ i = 2 /\ Base32Value(c) % 4 # Base32Value(x[2]) % 4
    \/ i \in 3..(Len(x) - 1) /\ Base32Value(c) # Base32Value(x[i])
    \/ i = Len(x) /\ Base32Value(c) \div 16 # Base32Value(x[i]) \div 16

\* C12 (as stated): the tagged encoding of a key decodes to the key, and any
\* one-character mutation of it makes decoding fail with MalformedKey.
C12_AnyMutationFails ==
    [][codecRet'.op = "FromBase32"
          => \A b \in KEYS :
                LET x == EncryptionKeyToBase32(b) IN
                /\ codecText = x => (codecRet'.err = "" /\ codecKey' = b)
                /\ \A i \in 1..Len(x), c \in MutationChars :
                      (c # x[i] /\ codecText = Mutate(x, i, c))
                         => codecRet'.err = "MalformedKey"]_vars

\* C12 (amended): the tagged encoding of a key decodes to the key; replacing
\* one character by a character that is no newline makes decoding fail with
\* MalformedKey exactly when the new character is outside the base32 alphabet
\* or the version byte changes, and otherwise decoding succeeds and yields the
\* key with the replaced bits, the same key if none of its bits was replaced.
C12_MutationOfTagOrAlphabetFails ==
    [][codecRet'.op = "FromBase32"
          => \A b \in KEYS :
                LET x == EncryptionKeyToBase32(b) IN
                /\ codecText = x => (codecRet'.err = "" /\ codecKey' = b)
                /\ \A i \in 1..Len(x), c \in MutationChars :
                      (c # x[i] /\ ~IsNewline(c) /\ codecText = Mutate(x, i, c))
                         => /\ codecRet'.err \in {"", "MalformedKey"}
                            /\ codecRet'.err = "MalformedKey"
                                  <=> (Base32Value(c) = 255 \/ ChangesTag(x, i, c))
                            /\ codecRet'.err = ""
                                  => (codecKey' = b <=> ~ChangesKey(x, i, c))]_vars

C12_Witness ==
    /\ codecRet.op = "FromBase32"
    /\ codecRet.err = "MalformedKey"
    /\ codecRet.at = "version"
    /\ \E b \in KEYS :
          codecText = Mutate(EncryptionKeyToBase32(b), 2, "a")

\* A Put that is accepted unless a record exists for its key.
ProbeGrant == Grant(WithID(<<"id1">>, Sat1), "head1")

ProbeDraw == [err |-> FALSE, val |-> 1]

\* The record and the invalidation state the store holds for key k.
RecordOf(k) == IF Hash(k) \in DOMAIN kv THEN {kv[Hash(k)]} ELSE {}

InvalidationOf(k) == IF Hash(k) \in DOMAIN invalid THEN {invalid[Hash(k)]} ELSE {}

\* C14: Put(k, ...), Delete(k) and Invalidate(k, _) leave the record and the
\* invalidation state of every other key as they were, and with them what
\* Get, Delete and Invalidate on that key return and whether a Put on it is
\* accepted; Get and Ping leave the store unchanged, and no operation changes
\* the allow-list.
C14_OtherKeysUntouched ==
    [][/\ allowedSatelliteAddresses' = allowedSatelliteAddresses
       /\ ret'.op \in {"Get", "Ping"} => (kv' = kv /\ invalid' = invalid)
       /\ ret'.op \in {"Put", "Delete", "Invalidate"}
             => \A k \in KEYS \ {ret'.key} :
                   /\ RecordOf(k)' = RecordOf(k)
                   /\ InvalidationOf(k)' = InvalidationOf(k)
                   /\ DatabaseGet(k)' = DatabaseGet(k)
                   /\ DatabaseDelete(k)'.err = DatabaseDelete(k).err
                   /\ \A reason \in REASONS :
                         DatabaseInvalidate(k, reason)'.err = DatabaseInvalidate(k, reason).err
                   /\ DatabasePut(k, ProbeGrant, FALSE, ProbeDraw)'.err
                         = DatabasePut(k, ProbeGrant, FALSE, ProbeDraw).err]_vars

C14_Witness ==
    /\ ret.op = "Delete"
    /\ ret.key \in acceptedKeys
    /\ RecordOf(ret.key) = {}
    /\ \E k \in KEYS \ {ret.key} :
          /\ k \in DOMAIN deposit
          /\ DatabaseGet(k) = Live(k)

\* C15: every record in the store lies under the SHA-256 of the key of the
\* Put that wrote it, and its two ciphertexts decrypt under that key, padded
\* with zeros to 32 bytes, and the fixed nonces to the secret key that Put
\* returned and the grant it was given.
C15_RecordsDecryptUnderTheirKey ==
    \A h \in DOMAIN kv :
       /\ h \in DOMAIN written
       /\ LET w == written[h]
              storjKey == [i \in 1..StorjKeyLen |-> IF i <= EncKeyLen THEN w.key[i] ELSE 0]
          IN /\ h = Hash(w.key)
             /\ Decrypt(kv[h].EncryptedSecretKey, storjKey, NonceSecretKey)
                   = [err |-> FALSE, pt |-> {w.secretKey}]
             /\ Decrypt(kv[h].EncryptedAccessGrant, storjKey, NonceAccessGrant)
                   = [err |-> FALSE, pt |-> {w.accessGrant}]

C15_Witness ==
    /\ ret.op = "Put"
    /\ ret.err = ""
    /\ Cardinality(DOMAIN kv) = NumKeys
    /\ \E h \in DOMAIN kv : h \in DOMAIN invalid /\ h # Hash(ret.key)
    /\ \E k \in acceptedKeys : written[Hash(k)].secretKey # ret.secretKey

\* The calls of Put(k, ...) that have returned without an error.
Winners(k) == {p \in PROCS : calls[p].pc = "done" /\ calls[p].key = k /\ calls[p].err = ""}

\* What Get(k) returns when call p is the one whose record is stored.
PutOf(p) ==
    [err |-> "", accessGrant |-> calls[p].accessGrant,
     public |-> calls[p].public, secretKey |-> calls[p].secretKey]

\* C13: of the Put calls for one key that run concurrently at most one
\* succeeds, every other one returns an error, and Get(k) returns the grant,
\* the flag and the secret key of the one that succeeded.
C13_ConcurrentPuts ==
    /\ [](\A k \in KEYS :
             /\ Cardinality(Winners(k)) <= 1
             /\ \A p \in PROCS :
                   (calls[p].pc = "done" /\ calls[p].key = k /\ p \notin Winners(k))
                      => calls[p].err # ""
             /\ \A p \in Winners(k) : DatabaseGet(k) = PutOf(p)
             /\ (Winners(k) = {} /\ \A p \in PROCS : calls[p].pc # "store")
                   => \A p \in PROCS : calls[p].key = k => calls[p].pc # "done"
                                                           \/ calls[p].record = {})
    /\ [][\A k \in KEYS, p \in PROCS :
             (p \in Winners(k) /\ ret'.op = "Get" /\ ret'.key = k /\ ret' # ret)
                => ret' = Returned("Get", k, PutOf(p))]_vars

C13_Witness ==
    \E p \in PROCS, q \in PROCS :
       /\ calls[p].pc = "done" /\ calls[q].pc = "done"
       /\ calls[p].key = calls[q].key
       /\ calls[p].err = "" /\ calls[p].raced
       /\ calls[q].err = "AlreadyExists"
       /\ calls[p].accessGrant # calls[q].accessGrant
       /\ calls[p].public # calls[q].public
       /\ calls[p].secretKey # calls[q].secretKey
       /\ ret = Returned("Get", calls[p].key, PutOf(p))

\* The calls a Put makes when no step fails, in the order of db.go:126-167.
PutCalls ==
    <<"ParseAccess", "ParseNodeURL", "allowedSatelliteAddresses", "rand.Read",
      "Encrypt", "Encrypt", "kv.Put">>

IsPrefix(t, u) == Len(t) <= Len(u) /\ SubSeq(u, 1, Len(t)) = t

\* The errors of the steps before the store write.
EarlyErrors == {"MalformedGrant", "BadNodeURL", "DisallowedSatellite", "Internal"}

\* C16: Put parses the grant, checks the allow-list, mints the secret key,
\* encrypts and writes to the store, in this order, and returns at the first
\* step that fails: a malformed grant is reported before the allow-list is
\* looked at, and after a parse failure, a disallowed satellite, an RNG
\* failure or an encryption failure the store's put has not been called and
\* the store is as it was.
C16_PutStepOrder ==
    /\ [](/\ IsPrefix(run.trace, PutCalls)
          /\ run.pc = "done"
                => /\ ParseAccess(run.accessGrant).err
                         <=> (run.err = "MalformedGrant" /\ run.trace = <<"ParseAccess">>)
                   /\ run.err = "DisallowedSatellite"
                         => run.trace = SubSeq(PutCalls, 1, 3)
                   /\ run.err \in EarlyErrors
                         => \A i \in 1..Len(run.trace) : run.trace[i] # "kv.Put"
                   /\ run.err \notin EarlyErrors => run.trace = PutCalls
                   /\ run.err = "" => Hash(run.key) \in DOMAIN kv)
    /\ [][/\ kv' # kv => (run.pc = "store" /\ run'.trace = PutCalls)
          /\ (run.pc # "done" /\ run'.pc = "done" /\ run'.err \in EarlyErrors)
                => (kv' = kv /\ invalid' = invalid)]_vars

C16_Witness ==
    /\ run.pc = "done"
    /\ run.err = "Internal"
    /\ run.trace = SubSeq(PutCalls, 1, 6)
    /\ ret = ReturnedErr("Put", run.key, "Internal", run.secretKey)
    /\ Hash(run.key) \notin DOMAIN kv
    /\ DOMAIN kv # {}

\* What Get(k) returns for the record the stepped Put has written.
PutOfRun ==
    [err |-> "", accessGrant |-> run.accessGrant,
     public |-> run.public, secretKey |-> run.secretKey]

\* C17: when the store's put has committed the record and reports the
\* cancellation, Put makes no further store call and returns the error with
\* the secret key; the record stays, and a later Get(k) returns the grant and
\* the secret key of that Put.
C17_NoRollback ==
    /\ []((run.pc = "done" /\ run.err = "Canceled")
             => /\ run.trace = PutCalls
                /\ Hash(run.key) \in DOMAIN kv
                /\ DatabaseGet(run.key) = PutOfRun)
    /\ [][/\ (run.pc = "store" /\ run'.err = "Canceled")
                => /\ Hash(run.key) \in DOMAIN kv'
                   /\ ret' = ReturnedErr("Put", run.key, "Canceled", run.secretKey)
          /\ (run.pc = "done" /\ run.err = "Canceled" /\ ret'.op = "Get")
                => ret' = Returned("Get", run.key, PutOfRun)]_vars

C17_Witness ==
    /\ run.pc = "done"
    /\ run.err = "Canceled"
    /\ ret = Returned("Get", run.key, PutOfRun)
    /\ ret.secretKey # ZeroSecret
    /\ Cardinality(DOMAIN kv) = NumKeys

\* The required parameters cmdRun finds empty.
EmptyRequired ==
    {n \in {"auth-token", "auth-url", "domain-name"} :
        \/ n = "auth-token" /\ cmd.runCfg.AuthToken = ""
        \/ n = "auth-url" /\ cmd.runCfg.AuthURL = ""
        \/ n = "domain-name" /\ cmd.runCfg.DomainName = ""}

AddressSplits == SplitHostPort(cmd.runCfg.Address).err = <<>>

Names(err, n) == \E i \in 1..Len(err) : err[i] = NotSet(n)

\* The run command has been called and has not reached Run.
NotStarted == cmd.pc # "idle" /\ cmd.pc # "run" /\ cmd.trace = <<>>

\* The run command does not start the gateway with an empty required
\* parameter or an address that does not split: it returns an error.
NeverStartsUnconfigured ==
    (cmd.pc # "idle" /\ (EmptyRequired # {} \/ ~AddressSplits))
       => /\ NotStarted
          /\ cmd.pc = "done" => cmd.err # <<>>

\* C19 (as stated): the run command never reaches Run when auth-token, auth-url
\* or domain-name is empty or the address cannot be split; it returns an
\* error, and the error names every required parameter that is empty.
C19_NeverStartsAndNamesEach ==
    /\ NeverStartsUnconfigured
    /\ cmd.pc = "done" => \A n \in EmptyRequired : Names(cmd.err, n)

\* C19 (amended): the run command never reaches Run when auth-token, auth-url
\* or domain-name is empty or the address cannot be split; it returns an
\* error.  When the address splits, the error names every required parameter
\* that is empty; when it does not, the error is the address error alone.
C19_NeverStartsNamesEachIfAddressSplits ==
    /\ NeverStartsUnconfigured
    /\ (cmd.pc = "done" /\ AddressSplits) => \A n \in EmptyRequired : Names(cmd.err, n)
    /\ (cmd.pc = "done" /\ ~AddressSplits)
          => cmd.err = SplitHostPort(cmd.runCfg.Address).err

C19_Witness ==
    /\ cmd.pc = "done"
    /\ AddressSplits
    /\ cmd.runCfg.Address[1] = ":"
    /\ EmptyRequired = {"auth-token", "domain-name"}
    /\ Len(cmd.err) = 2
    /\ "MINIO_DOMAIN" \in DOMAIN cmd.env
    /\ cmd.trace = <<>>

\* C18: FromBase32 fails exactly when the string is not 28 characters long,
\* does not decode as base32 once in upper case, or its first decoded byte is
\* not 77; a failure leaves the receiver as it was, and after a success the
\* receiver holds the 16 bytes that follow the version byte.
C18_FromBase32Failures ==
    [][codecRet'.op = "FromBase32"
          => LET dec == DecodeString(ToUpper(codecText)) IN
             /\ codecRet'.err # ""
                   <=> \/ Len(codecText) # encKeySizeEncoded
                       \/ dec.err
                       \/ dec.data = <<>>
                       \/ dec.data[1] # encKeyVersionByte
             /\ codecRet'.err # "" => codecKey' = codecRet'.recv
             /\ codecRet'.err = ""
                   => /\ Len(dec.data) = 1 + EncKeyLen
                      /\ codecKey' = SubSeq(dec.data, 2, 1 + EncKeyLen)]_vars

====
